---- MODULE Spec2Model ----
(***************************************************************************)
(* Model of estat_mcp.client: the pagination loop of                       *)
(* EstatClient.get_all_data and the retrying transport                     *)
(* (_request_with_retry, _get_json, _check_api_status).                    *)
(*                                                                         *)
(* Python values are modelled as follows.                                  *)
(*   - a str is a sequence of one-character strings;                       *)
(*   - an Optional[T] is a sequence of length <= 1: None is << >> and a    *)
(*     present value v is <<v>>;                                           *)
(*   - a coroutine runs atomically from one await to the next, so every    *)
(*     action below is the code between two suspension points.             *)
(***************************************************************************)
EXTENDS Integers, Sequences, FiniteSets, TLC

(***************************************************************************)
(* Bounds of the model                                                     *)
(***************************************************************************)
\* largest max_pages argument explored
MaxPagesBound == 3
\* longest continuation token (in characters) the server sends
MaxTokenLen == 1
\* most values on one page
MaxPageSize == 1

(***************************************************************************)
(* Python helpers                                                          *)
(***************************************************************************)
None == << >>

Some(v) == <<v>>

IsNone(o) == Len(o) = 0

\* the value held by a present optional
The(o) == o[1]

\* sequences over S of length lo..hi
SeqsOf(S, lo, hi) == UNION {[1..n -> S] : n \in lo..hi}

Digits == <<"0", "1", "2", "3", "4", "5", "6", "7", "8", "9">>

IsDigit(c) == \E d \in 1..10 : Digits[d] = c

DigitVal(c) == (CHOOSE d \in 1..10 : Digits[d] = c) - 1

\* int(s) succeeds: a non-empty run of decimal digits (the alphabet of the
\* model has no sign, blank or underscore)
CanParseInt(s) == Len(s) > 0 /\ \A i \in 1..Len(s) : IsDigit(s[i])

RECURSIVE ParseDigits(_)
ParseDigits(s) ==
  IF Len(s) = 0 THEN 0
  ELSE 10 * ParseDigits(SubSeq(s, 1, Len(s) - 1)) + DigitVal(s[Len(s)])

\* int(s) for a text that parses
ParseInt(s) == ParseDigits(s)

RECURSIVE NatToStr(_)
NatToStr(n) ==
  IF n < 10 THEN <<Digits[n + 1]>>
  ELSE NatToStr(n \div 10) \o <<Digits[(n % 10) + 1]>>

\* str(None)
StrOfNone == <<"N", "o", "n", "e">>

\* str(x) for x an Optional[int] with x >= 0
StrOfOptInt(o) == IF IsNone(o) THEN StrOfNone ELSE NatToStr(The(o))

(***************************************************************************)
(* What the server can put on a page                                       *)
(***************************************************************************)
\* characters of a continuation token
TokenChars == {"0", "7", "x"}

\* StatsData.next_key of one page: str(NEXT_KEY) of whatever the server sent
\* (a non-empty text)
Tokens == SeqsOf(TokenChars, 1, MaxTokenLen)

\* the DataValue objects a page can hold
DataValues == {"a", "b"}

\* the total_count a page can report
TotalCounts == {0, 5}

\* StatsData as returned by get_data
StatsDataPages ==
  [total_count : TotalCounts,
   values : SeqsOf(DataValues, 0, MaxPageSize),
   next_key : {None} \cup {Some(t) : t \in Tokens}]

(***************************************************************************)
(* State                                                                   *)
(***************************************************************************)
VARIABLES
  \* ---- EstatClient.get_all_data ----
  ga_pc,           \* "idle", "fetching" (awaiting get_data), "returned", "raised"
  max_pages,       \* the max_pages argument
  all_values,      \* local all_values
  start_position,  \* local start_position: Optional[int]
  total_count,     \* local total_count
  pages_fetched,   \* local pages_fetched
  ga_result,       \* Optional[StatsData]: what get_all_data returned
  ga_error,        \* the exception get_all_data raised ("" when none)
  ga_fetched,      \* history: per page get_data returned, in fetch order, its
                   \* values and whether it carried a next_key
  ga_last,         \* history: Optional[StatsData], the last page get_data returned
  ga_ncalls,       \* history: the number of get_data calls made
  ga_args,         \* the other arguments get_all_data was called with
  ga_call,         \* Optional: the keyword arguments of the latest get_data call
  ga_fetch_error   \* Optional: the exception the failed get_data call raised

ga_vars == <<ga_pc, max_pages, all_values, start_position, total_count,
             pages_fetched, ga_result, ga_error, ga_fetched, ga_last, ga_ncalls,
             ga_args, ga_call, ga_fetch_error>>

(***************************************************************************)
(* EstatClient.get_all_data                                                *)
(***************************************************************************)
\* a faulty variant of Extend: the page's values are put in front
ExtendInFront(acc, vals) == vals \o acc

\* all_values.extend(page.values)
Extend(acc, vals) == acc \o vals

\* the next_key of the StatsData built at the end of get_all_data
MergedNextKey(sp, fetched, mp) ==
  IF fetched >= mp THEN Some(StrOfOptInt(sp)) ELSE None

\* the StatsData returned at the end of get_all_data
Merged(vals, tc, sp, fetched, mp) ==
  [total_count |-> tc, values |-> vals,
   next_key |-> MergedNextKey(sp, fetched, mp)]

\* get_all_data called with a stats id alone: the defaults of its signature
DefaultArgs ==
  [stats_id |-> "S", dataset_id |-> None, lv_tab |-> None, cd_tab |-> None,
   lv_time |-> None, cd_time |-> None, lv_area |-> None, cd_area |-> None,
   cd_cat01 |-> None, limit |-> 100000]

\* get_all_data called with every argument given
FullArgs ==
  [stats_id |-> "S", dataset_id |-> Some("D"), lv_tab |-> Some("1"),
   cd_tab |-> Some("110"), lv_time |-> Some("2"), cd_time |-> Some("2024"),
   lv_area |-> Some("3"), cd_area |-> Some("13000"), cd_cat01 |-> Some("A"),
   limit |-> 10]

CallArgs == {DefaultArgs, FullArgs}

\* a faulty variant of GetDataKwargs: limit is left to get_data's default
GetDataKwargsNoLimit(args, sp) ==
  [stats_id |-> args.stats_id, dataset_id |-> args.dataset_id,
   lv_tab |-> args.lv_tab, cd_tab |-> args.cd_tab,
   lv_time |-> args.lv_time, cd_time |-> args.cd_time,
   lv_area |-> args.lv_area, cd_area |-> args.cd_area,
   cd_cat01 |-> args.cd_cat01, start_position |-> sp, limit |-> 100000]

\* the arguments of self.get_data(...) in the loop
GetDataKwargs(args, sp) ==
  [stats_id |-> args.stats_id, dataset_id |-> args.dataset_id,
   lv_tab |-> args.lv_tab, cd_tab |-> args.cd_tab,
   lv_time |-> args.lv_time, cd_time |-> args.cd_time,
   lv_area |-> args.lv_area, cd_area |-> args.cd_area,
   cd_cat01 |-> args.cd_cat01, start_position |-> sp, limit |-> args.limit]

\* get_data: params["startPosition"] of the request, set under
\* "if start_position:" (None when the parameter is not sent)
StartPositionParam(kwargs) ==
  IF ~IsNone(kwargs.start_position) /\ The(kwargs.start_position) # 0
  THEN kwargs.start_position
  ELSE None

\* exceptions get_data raises: the API error, and one that is not wrapped
FetchErrors == {"EstatAPIError", "ConnectError"}

\* a faulty variant of Reraised: every failure of a fetch becomes the API error
ReraisedAsApiError(e) == "EstatAPIError"

\* the loop has no try: what get_data raises leaves get_all_data as it is
Reraised(e) == e

GaInit ==
  /\ ga_args = DefaultArgs
  /\ ga_call = None
  /\ ga_fetch_error = None
  /\ ga_pc = "idle"
  /\ max_pages = 0
  /\ all_values = << >>
  /\ start_position = None
  /\ total_count = 0
  /\ pages_fetched = 0
  /\ ga_result = None
  /\ ga_error = ""
  /\ ga_fetched = << >>
  /\ ga_last = None
  /\ ga_ncalls = 0

\* the call, up to the first await of get_data (or to the return when the
\* loop body never runs)
GetAllDataCall ==
  /\ ga_pc = "idle"
  /\ \E mp \in 0..MaxPagesBound, args \in CallArgs :
       /\ max_pages' = mp
       /\ ga_args' = args
       /\ ga_fetch_error' = None
       /\ ga_call' = IF 0 < mp THEN Some(GetDataKwargs(args, None)) ELSE None
       /\ all_values' = << >>
       /\ start_position' = None
       /\ total_count' = 0
       /\ pages_fetched' = 0
       /\ ga_fetched' = << >>
       /\ ga_last' = None
       /\ ga_error' = ""
       /\ IF 0 < mp
          THEN /\ ga_pc' = "fetching"
               /\ ga_ncalls' = 1
               /\ ga_result' = None
          ELSE /\ ga_pc' = "returned"
               /\ ga_ncalls' = 0
               /\ ga_result' = Some(Merged(<< >>, 0, None, 0, mp))

\* get_data returns a page: the rest of the loop body, then either the next
\* get_data call, the return, or the ValueError of int(page.next_key)
GetDataReturns ==
  /\ ga_pc = "fetching"
  /\ \E page \in StatsDataPages :
       LET vals == Extend(all_values, page.values)
           tc == page.total_count
           n == pages_fetched + 1
       IN
       /\ all_values' = vals
       /\ total_count' = tc
       /\ pages_fetched' = n
       /\ ga_fetched' = Append(ga_fetched, [values |-> page.values,
                                            has_key |-> ~IsNone(page.next_key)])
       /\ ga_last' = Some(page)
       /\ max_pages' = max_pages
       /\ UNCHANGED <<ga_args, ga_fetch_error>>
       /\ IF IsNone(page.next_key)
          THEN \* break
               /\ ga_call' = ga_call
               /\ start_position' = start_position
               /\ ga_pc' = "returned"
               /\ ga_result' = Some(Merged(vals, tc, start_position, n, max_pages))
               /\ ga_error' = ""
               /\ ga_ncalls' = ga_ncalls
          ELSE IF ~CanParseInt(The(page.next_key))
          THEN \* int(page.next_key) raises
               /\ ga_call' = ga_call
               /\ start_position' = start_position
               /\ ga_pc' = "raised"
               /\ ga_result' = None
               /\ ga_error' = "ValueError"
               /\ ga_ncalls' = ga_ncalls
          ELSE LET sp == Some(ParseInt(The(page.next_key))) IN
               /\ start_position' = sp
               /\ ga_error' = ""
               /\ IF n < max_pages
                  THEN /\ ga_pc' = "fetching"
                       /\ ga_result' = None
                       /\ ga_ncalls' = ga_ncalls + 1
                       /\ ga_call' = Some(GetDataKwargs(ga_args, sp))
                  ELSE /\ ga_pc' = "returned"
                       /\ ga_call' = ga_call
                       /\ ga_result' = Some(Merged(vals, tc, sp, n, max_pages))
                       /\ ga_ncalls' = ga_ncalls

\* get_data raises: the exception leaves get_all_data unhandled
GetDataRaises ==
  /\ ga_pc = "fetching"
  /\ ga_pc' = "raised"
  /\ \E e \in FetchErrors :
       /\ ga_fetch_error' = Some(e)
       /\ ga_error' = Reraised(e)
  /\ ga_result' = None
  /\ UNCHANGED <<max_pages, all_values, start_position, total_count,
                 pages_fetched, ga_fetched, ga_last, ga_ncalls, ga_args, ga_call>>

(***************************************************************************)
(* The retrying transport: _request_with_retry, _get_json,                 *)
(* _check_api_status                                                       *)
(***************************************************************************)
\* most top-level keys of a JSON response body
MaxTopKeys == 2

\* a faulty variant of RETRYABLE_STATUS: 404 is retried as well
RETRYABLE_STATUS_with_404 == {404, 429, 500, 502, 503, 504}

\* _RETRYABLE_STATUS
RETRYABLE_STATUS == {429, 500, 502, 503, 504}

\* a faulty variant of max_retries: one attempt more
max_retries_plus_one == 3 + 1

\* max_retries of _request_with_retry
max_retries == 3

\* the status codes the server answers with
StatusCodes == {200, 302, 404} \cup RETRYABLE_STATUS

\* httpx.Response.is_success
IsSuccess(code) == 200 <= code /\ code <= 299

\* the values the server puts in RESULT.STATUS (a JSON number or string)
StatusValues ==
  {[t |-> "int", v |-> 0], [t |-> "int", v |-> 1], [t |-> "int", v |-> 100],
   [t |-> "str", v |-> 0]}

\* Python's  status != 0
PyNeZero(x) == ~(x.t = "int" /\ x.v = 0)

\* the values of RESULT.ERROR_MSG: a text, or JSON null
ErrorMsgs == {"E1", "null"}

\* what a top-level key can hold under "RESULT".  STATUS is result.get("STATUS"):
\* None for a missing key and for JSON null alike.  ERROR_MSG is None when the
\* key is missing.  A dict with neither may still hold other keys (DATE);
\* empty says whether it holds none at all.
ResultValues ==
  {[t |-> "scalar"]} \cup
  [t : {"dict"}, empty : {FALSE},
   STATUS : {None} \cup {Some(x) : x \in StatusValues},
   ERROR_MSG : {None} \cup {Some(m) : m \in ErrorMsgs}] \cup
  {[t |-> "dict", empty |-> TRUE, STATUS |-> None, ERROR_MSG |-> None]}

\* what a top-level key of the response can hold: something that is no dict,
\* or a dict; RESULT is its .get("RESULT")
TopValues ==
  {[t |-> "scalar"]} \cup
  [t : {"dict"}, RESULT : {None} \cup {Some(r) : r \in ResultValues}]

\* a decoded JSON object: the values of its top-level keys in iteration order
JsonObjects == SeqsOf(TopValues, 0, MaxTopKeys)

\* a response body: text that decodes to a JSON object, or text that does not
Bodies == {[json |-> FALSE, data |-> << >>]} \cup
          [json : {TRUE}, data : JsonObjects]

\* stands for the response of a GET that produced none
NoResponse == [status_code |-> 0, body |-> [json |-> FALSE, data |-> << >>]]

\* the body of a response whose body is never read
NoBody == [json |-> FALSE, data |-> << >>]

\* httpx.Response
Responses ==
  {[status_code |-> c, body |-> b] :
     c \in {x \in StatusCodes : IsSuccess(x)}, b \in Bodies} \cup
  {[status_code |-> c, body |-> NoBody] :
     c \in {x \in StatusCodes : ~IsSuccess(x)}}

\* the loop body of _check_api_status raises for this top-level value
StatusRaises(val) ==
  /\ val.t = "dict"
  /\ ~IsNone(val.RESULT)
  /\ The(val.RESULT).t = "dict"
  /\ ~The(val.RESULT).empty
  /\ ~IsNone(The(val.RESULT).STATUS)
  /\ PyNeZero(The(The(val.RESULT).STATUS))

\* a faulty variant of ErrorMessage: the server's message is ignored
ErrorMessageAlwaysGeneric(result) ==
  <<"API error (status=", The(result.STATUS), ")">>

\* result.get("ERROR_MSG", f"API error (status={status})")
ErrorMessage(result) ==
  IF IsNone(result.ERROR_MSG)
  THEN <<"API error (status=", The(result.STATUS), ")">>
  ELSE <<The(result.ERROR_MSG)>>

\* a faulty variant of CheckApiStatus: the check is skipped
CheckApiStatusSkipped(data) == None

\* _check_api_status: None when it returns, else the message of the
\* EstatAPIError it raises (that of the first key that raises)
CheckApiStatus(data) ==
  IF \E i \in 1..Len(data) : StatusRaises(data[i])
  THEN LET i == CHOOSE j \in 1..Len(data) :
                  /\ StatusRaises(data[j])
                  /\ \A k \in 1..(j - 1) : ~StatusRaises(data[k])
       IN Some(ErrorMessage(The(data[i].RESULT)))
  ELSE None

\* an exception object: its type, what it carries, and its __cause__
Exc(type, detail, cause) == [type |-> type, detail |-> detail, cause |-> cause]

\* httpx.HTTPStatusError, httpx.TimeoutException are httpx.HTTPError
IsHTTPError(e) == e.type \in {"HTTPStatusError", "TimeoutException"}

\* a faulty variant of BackoffDelay: the exponent is one too large
BackoffDelayTooLong(i) == 2 ^ (i + 1)

\* delay = 2**attempt
BackoffDelay(i) == 2 ^ i

\* attempt < max_retries - 1
SleepsAfter(i) == i < max_retries - 1

VARIABLES
  \* ---- EstatClient._get_json / _request_with_retry ----
  rq_pc,        \* "idle", "limiter" (awaiting _limiter.wait), "get" (awaiting
                \* _http.get), "sleep" (awaiting asyncio.sleep), "done"
  attempt,      \* loop variable attempt
  last_exc,     \* local last_exc: Optional exception
  rr_outcome,   \* how _request_with_retry ended: "", "returned", "raised"
  rr_value,     \* Optional: the response it returned or the exception it raised
  gj_outcome,   \* how _get_json ended: "", "returned", "raised"
  gj_value,     \* Optional: the data it returned or the exception it raised
  rq_gets,      \* history: what each _http.get ended with, in order
  rq_waits,     \* history: the number of _limiter.wait calls that completed
  rq_sleeps     \* history: the delay of each asyncio.sleep call, in order

rq_vars == <<rq_pc, attempt, last_exc, rr_outcome, rr_value, gj_outcome,
             gj_value, rq_gets, rq_waits, rq_sleeps>>

RqInit ==
  /\ rq_pc = "idle"
  /\ attempt = 0
  /\ last_exc = None
  /\ rr_outcome = ""
  /\ rr_value = None
  /\ gj_outcome = ""
  /\ gj_value = None
  /\ rq_gets = << >>
  /\ rq_waits = 0
  /\ rq_sleeps = << >>

\* a faulty variant of LoopBodyStart: only the first attempt awaits the limiter
LoopBodyStartAtGet == "get"

\* where every iteration of the retry loop begins: at the await of
\* self._limiter.wait(), before the GET
LoopBodyStart == "limiter"

\* _get_json is called: _request_with_retry runs to its first await
GetJsonCall ==
  /\ rq_pc = "idle"
  /\ rq_pc' = LoopBodyStart
  /\ attempt' = 0
  /\ last_exc' = None
  /\ UNCHANGED <<rr_outcome, rr_value, gj_outcome, gj_value, rq_gets,
                 rq_waits, rq_sleeps>>

\* await self._limiter.wait() completes; self._http.get is issued
LimiterWaitDone ==
  /\ rq_pc = "limiter"
  /\ rq_pc' = "get"
  /\ rq_waits' = rq_waits + 1
  /\ UNCHANGED <<attempt, last_exc, rr_outcome, rr_value, gj_outcome,
                 gj_value, rq_gets, rq_sleeps>>

\* a faulty variant of Propagate: whatever leaves is wrapped in the API error
PropagateWrapped(e) ==
  /\ rq_pc' = "done"
  /\ rr_outcome' = "raised"
  /\ rr_value' = Some(Exc("EstatAPIError", <<"HTTP error: ", e>>, Some(e)))
  /\ gj_outcome' = "raised"
  /\ gj_value' = Some(Exc("EstatAPIError", <<"HTTP error: ", e>>, Some(e)))

\* an exception leaves _request_with_retry and so _get_json
Propagate(e) ==
  /\ rq_pc' = "done"
  /\ rr_outcome' = "raised"
  /\ rr_value' = Some(e)
  /\ gj_outcome' = "raised"
  /\ gj_value' = Some(e)

\* a faulty variant of NewLastExc: the first failure is kept
FirstExcKept(old, e) == IF IsNone(old) THEN e ELSE The(old)

\* last_exc = e (and last_exc = httpx.HTTPStatusError(...)): the failure of
\* the attempt replaces the one recorded before
NewLastExc(old, e) == e

\* the code after the try statement, once last_exc is set for the failure e:
\* the backoff sleep, or the end of the loop and the raise
AfterRetryable(e) ==
  LET last == NewLastExc(last_exc, e) IN
  /\ last_exc' = Some(last)
  /\ IF SleepsAfter(attempt)
     THEN /\ rq_pc' = "sleep"
          /\ rq_sleeps' = Append(rq_sleeps, BackoffDelay(attempt))
          /\ UNCHANGED <<rr_outcome, rr_value, gj_outcome, gj_value>>
     ELSE /\ rq_sleeps' = rq_sleeps
          /\ IF IsHTTPError(last)
             THEN Propagate(Exc("EstatAPIError", <<"HTTP error: ", last>>, Some(last)))
             ELSE Propagate(last)

\* _request_with_retry returns resp: _get_json decodes and checks it
GetJsonTail(resp) ==
  /\ rq_pc' = "done"
  /\ rr_outcome' = "returned"
  /\ rr_value' = Some(resp)
  /\ IF ~resp.body.json
     THEN /\ gj_outcome' = "raised"
          /\ gj_value' = Some(Exc("JSONDecodeError", << >>, None))
     ELSE LET err == CheckApiStatus(resp.body.data) IN
          IF IsNone(err)
          THEN /\ gj_outcome' = "returned"
               /\ gj_value' = Some(resp.body.data)
          ELSE /\ gj_outcome' = "raised"
               /\ gj_value' = Some(Exc("EstatAPIError", The(err), None))

\* self._http.get returns a response
HttpGetResponds ==
  /\ rq_pc = "get"
  /\ \E resp \in Responses :
       /\ rq_gets' = Append(rq_gets, [kind |-> "response", resp |-> resp])
       /\ IF resp.status_code \notin RETRYABLE_STATUS
          THEN IF IsSuccess(resp.status_code)
               THEN /\ GetJsonTail(resp)
                    /\ UNCHANGED <<last_exc, rq_sleeps>>
               ELSE \* resp.raise_for_status() raises; no except clause takes it
                    /\ Propagate(Exc("HTTPStatusError", <<resp.status_code>>, None))
                    /\ UNCHANGED <<last_exc, rq_sleeps>>
          ELSE AfterRetryable(Exc("HTTPStatusError", <<resp.status_code>>, None))
  /\ UNCHANGED <<attempt, rq_waits>>

\* self._http.get raises httpx.TimeoutException
HttpGetTimesOut ==
  /\ rq_pc = "get"
  /\ rq_gets' = Append(rq_gets, [kind |-> "timeout", resp |-> NoResponse])
  /\ AfterRetryable(Exc("TimeoutException", <<Len(rq_gets) + 1>>, None))
  /\ UNCHANGED <<attempt, rq_waits>>

\* self._http.get raises an exception that is no httpx.TimeoutException
HttpGetFails ==
  /\ rq_pc = "get"
  /\ rq_gets' = Append(rq_gets, [kind |-> "error", resp |-> NoResponse])
  /\ Propagate(Exc("ConnectError", << >>, None))
  /\ UNCHANGED <<attempt, last_exc, rq_waits, rq_sleeps>>

\* await asyncio.sleep(delay) completes: the next iteration begins
BackoffSleepDone ==
  /\ rq_pc = "sleep"
  /\ attempt' = attempt + 1
  /\ rq_pc' = LoopBodyStart
  /\ UNCHANGED <<last_exc, rr_outcome, rr_value, gj_outcome, gj_value,
                 rq_gets, rq_waits, rq_sleeps>>

(***************************************************************************)
(* _RateLimiter, shared by the concurrent callers of one client            *)
(*                                                                         *)
(* Time is a clock of whole ticks that never runs backwards; time.time()   *)
(* reads it.  asyncio.sleep(d) returns once at least d has passed.         *)
(* self._lock is an asyncio.Lock: acquire() takes a free lock at once when *)
(* nobody queues for it and queues the caller otherwise; release() frees   *)
(* the lock and wakes the first of the queue.                              *)
(***************************************************************************)
\* most tasks calling the limiter of one client concurrently
MaxCallers == 2
\* most calls of wait() by one task
MaxCallsPerCaller == 2
\* most ticks the clock advances
MaxTicks == 2

\* ticks of the clock per second
TicksPerSecond == 2

\* the rate_limit arguments explored (requests per second)
Rates == {-1, 0, 1, 2}

\* the tasks
Callers == 1..MaxCallers

\* what time.time() reads when the client is constructed: far more than any
\* interval after the epoch
ClockStart == 2 * TicksPerSecond

\* self._interval = 1.0 / rate if rate > 0 else 0.0, in ticks
IntervalOf(rate) == IF rate > 0 THEN TicksPerSecond \div rate ELSE 0

\* a faulty variant of LimiterDisabled: wait() lacks its early return
LimiterNeverDisabled(interval) == FALSE

\* if self._interval <= 0: return
LimiterDisabled(interval) == interval <= 0

\* a faulty variant of GrantStamp: the time read before the sleep is stored
GrantStampBeforeSleep(before, after) == before

\* self._last_request = time.time(), read after the sleep; before is the
\* now read on entry
GrantStamp(before, after) == after

\* asyncio.sleep(self._interval - elapsed)
SleepFor(interval, elapsed) == interval - elapsed

VARIABLES
  \* ---- _RateLimiter and its callers ----
  lim_rate,      \* the rate the limiter was constructed with
  lim_interval,  \* self._interval
  lim_last,      \* self._last_request
  lim_locked,    \* self._lock is held
  lim_waiters,   \* the tasks queued in self._lock, first come first
  lim_now,       \* the clock
  lim_pc,        \* per task: "idle", "queued" (awaiting the lock), "sleeping"
                 \* (in asyncio.sleep, holding the lock), "requesting" (wait()
                 \* returned, the HTTP request is out), "backoff" (in the
                 \* asyncio.sleep of the retry loop, after a failed request)
  lim_entry,     \* per task: the now it read on entry, kept until its
                 \* request ends
  lim_wake,      \* per task: the time its sleep may end, kept until its
                 \* request ends
  lim_calls,     \* per task: the calls of wait() it made
  lim_grants,    \* history: the last two values stored in _last_request
  lim_starts     \* history: the start times of the last two HTTP requests

lim_vars == <<lim_rate, lim_interval, lim_last, lim_locked, lim_waiters,
              lim_now, lim_pc, lim_entry, lim_wake, lim_calls, lim_grants,
              lim_starts>>

\* the last two of a history, after t is added
Latest(hist, t) == IF Len(hist) < 2 THEN Append(hist, t) ELSE <<hist[2], t>>

\* _RateLimiter.__init__, for one of the rates
LimInit ==
  /\ lim_rate \in Rates
  /\ lim_interval = IntervalOf(lim_rate)
  /\ lim_last = 0
  /\ lim_locked = FALSE
  /\ lim_waiters = << >>
  /\ lim_now = ClockStart
  /\ lim_pc = [c \in Callers |-> "idle"]
  /\ lim_entry = [c \in Callers |-> 0]
  /\ lim_wake = [c \in Callers |-> 0]
  /\ lim_calls = [c \in Callers |-> 0]
  /\ lim_grants = << >>
  /\ lim_starts = << >>

\* the limiter of every other specification: constructed, never used
LimIdle == LimInit /\ lim_rate = 1

\* a faulty variant of LockIsFree: the lock is never seen as held
LockAlwaysFree == TRUE

\* asyncio.Lock.acquire takes the lock without waiting
LockIsFree == ~lim_locked /\ lim_waiters = << >>

\* wait() returns to task c, which issues its HTTP request at once
StartRequest(c) ==
  /\ lim_pc' = [lim_pc EXCEPT ![c] = "requesting"]
  /\ lim_starts' = Latest(lim_starts, lim_now)

\* a faulty variant of LockedAfterGate: wait() returns with the lock held,
\* so the request and its backoff sleep are taken inside the gate
LockKeptAfterGate == TRUE

\* the async with of wait() ends before wait() returns: the lock is free
\* during the request and the backoff sleep
LockedAfterGate == FALSE

\* the end of the gate: the timestamp is stored, the lock released, wait()
\* returns
Grant(c, before) ==
  /\ lim_last' = GrantStamp(before, lim_now)
  /\ lim_grants' = Latest(lim_grants, GrantStamp(before, lim_now))
  /\ lim_locked' = LockedAfterGate
  /\ StartRequest(c)

\* the body of the gate, entered by task c with the lock: it sleeps out the
\* rest of the interval, or passes at once
Gate(c) ==
  LET elapsed == lim_now - lim_last IN
  IF elapsed < lim_interval
  THEN /\ lim_locked' = TRUE
       /\ lim_pc' = [lim_pc EXCEPT ![c] = "sleeping"]
       /\ lim_entry' = [lim_entry EXCEPT ![c] = lim_now]
       /\ lim_wake' = [lim_wake EXCEPT ![c] = lim_now + SleepFor(lim_interval, elapsed)]
       /\ UNCHANGED <<lim_last, lim_grants, lim_starts>>
  ELSE /\ Grant(c, lim_now)
       /\ UNCHANGED <<lim_entry, lim_wake>>

\* wait() is called by task c and runs to its first await or to its return
CallWait(c) ==
  /\ lim_calls[c] < MaxCallsPerCaller
  /\ lim_calls' = [lim_calls EXCEPT ![c] = @ + 1]
  /\ IF LimiterDisabled(lim_interval)
     THEN /\ StartRequest(c)
          /\ UNCHANGED <<lim_last, lim_locked, lim_waiters, lim_entry,
                         lim_wake, lim_grants>>
     ELSE IF LockIsFree
     THEN /\ Gate(c)
          /\ UNCHANGED lim_waiters
     ELSE /\ lim_waiters' = Append(lim_waiters, c)
          /\ lim_pc' = [lim_pc EXCEPT ![c] = "queued"]
          /\ UNCHANGED <<lim_last, lim_locked, lim_entry, lim_wake,
                         lim_grants, lim_starts>>
  /\ UNCHANGED <<lim_rate, lim_interval, lim_now>>

\* task c starts a request: the first pass of the retry loop calls wait()
WaitCall(c) ==
  /\ lim_pc[c] = "idle"
  /\ CallWait(c)

\* the backoff sleep of task c ends: the next pass of the retry loop calls
\* wait()
RetryAfterBackoff(c) ==
  /\ lim_pc[c] = "backoff"
  /\ CallWait(c)

\* the first of the queue, woken by release(), takes the lock and enters
LockAcquired(c) ==
  /\ lim_pc[c] = "queued"
  /\ ~lim_locked
  /\ lim_waiters # << >>
  /\ Head(lim_waiters) = c
  /\ lim_waiters' = Tail(lim_waiters)
  /\ Gate(c)
  /\ UNCHANGED <<lim_rate, lim_interval, lim_now, lim_calls>>

\* the sleep of task c ends
LimiterSleepDone(c) ==
  /\ lim_pc[c] = "sleeping"
  /\ lim_now >= lim_wake[c]
  /\ Grant(c, lim_entry[c])
  /\ UNCHANGED <<lim_rate, lim_interval, lim_waiters, lim_now, lim_entry,
                 lim_wake, lim_calls>>

\* the HTTP request of task c ends: for good, or with a retryable failure
\* that is followed by the backoff sleep of the retry loop
RequestDone(c) ==
  /\ lim_pc[c] = "requesting"
  /\ \/ lim_pc' = [lim_pc EXCEPT ![c] = "idle"]
     \/ /\ lim_calls[c] < MaxCallsPerCaller
        /\ lim_pc' = [lim_pc EXCEPT ![c] = "backoff"]
  /\ lim_entry' = [lim_entry EXCEPT ![c] = 0]
  /\ lim_wake' = [lim_wake EXCEPT ![c] = 0]
  /\ UNCHANGED <<lim_rate, lim_interval, lim_last, lim_locked, lim_waiters,
                 lim_now, lim_calls, lim_grants, lim_starts>>

\* the clock advances (the model stops it after MaxTicks once no sleep of
\* the gate is due later)
Tick ==
  /\ \/ lim_now < ClockStart + MaxTicks
     \/ \E c \in Callers : lim_pc[c] = "sleeping" /\ lim_now < lim_wake[c]
  /\ lim_now' = lim_now + 1
  /\ UNCHANGED <<lim_rate, lim_interval, lim_last, lim_locked, lim_waiters,
                 lim_pc, lim_entry, lim_wake, lim_calls, lim_grants,
                 lim_starts>>

(***************************************************************************)
(* The parsing helpers: _parse_numeric, _ensure_list, and the parsing part *)
(* of get_data                                                             *)
(*                                                                         *)
(* A JSON value is a record tagged by t: "null", "int", "str", "dict" or   *)
(* "list".                                                                 *)
(***************************************************************************)
\* longest raw cell text
MaxTextLen == 3
\* longest JSON list handed to _ensure_list
MaxListLen == 2
\* most value nodes in one get_data response
MaxValueNodes == 1

\* the character U+2026 (horizontal ellipsis), one character of a str
Ellipsis == "U+2026"

\* _MISSING_VALUES
MISSING_VALUES ==
  {<<"-">>, <<"*", "*", "*">>, <<"x">>, <<"X">>, <<".", ".", ".">>, <<Ellipsis>>}

\* the characters of a raw cell text
CellChars == {"0", "1", ".", "-", "e", "x", "X", "*", Ellipsis}

\* the raw cell texts
RawTexts == SeqsOf(CellChars, 0, MaxTextLen)

\* the position of the first c in s, 0 when there is none
IndexOf(s, c) ==
  IF \E i \in 1..Len(s) : s[i] = c
  THEN CHOOSE i \in 1..Len(s) : s[i] = c /\ \A j \in 1..(i - 1) : s[j] # c
  ELSE 0

AllDigits(s) == \A i \in 1..Len(s) : IsDigit(s[i])

HasSign(s) == Len(s) > 0 /\ s[1] = "-"

Unsigned(s) == IF HasSign(s) THEN Tail(s) ELSE s

\* int(s) succeeds for a text over CellChars: an optional sign, then digits
PyIntParses(s) == CanParseInt(Unsigned(s))

\* int(s)
PyInt(s) == IF HasSign(s) THEN 0 - ParseInt(Unsigned(s)) ELSE ParseInt(Unsigned(s))

\* the mantissa and the exponent part of a float literal without its sign
Mantissa(u) == IF IndexOf(u, "e") = 0 THEN u ELSE SubSeq(u, 1, IndexOf(u, "e") - 1)

ExponentPart(u) == SubSeq(u, IndexOf(u, "e") + 1, Len(u))

IntegerDigits(m) == IF IndexOf(m, ".") = 0 THEN m ELSE SubSeq(m, 1, IndexOf(m, ".") - 1)

FractionDigits(m) ==
  IF IndexOf(m, ".") = 0 THEN << >> ELSE SubSeq(m, IndexOf(m, ".") + 1, Len(m))

\* float(s) succeeds for a text over CellChars: [-] (digits [. [digits]] |
\* . digits) [e [-] digits]
PyFloatParses(s) ==
  LET u == Unsigned(s)
      m == Mantissa(u)
  IN /\ AllDigits(IntegerDigits(m))
     /\ AllDigits(FractionDigits(m))
     /\ Len(IntegerDigits(m)) + Len(FractionDigits(m)) > 0
     /\ IndexOf(u, "e") # 0 => CanParseInt(Unsigned(ExponentPart(u)))

\* a float m * 10^e in normal form: m is no multiple of 10, or is 0 with e = 0
RECURSIVE NormalFloat(_, _)
NormalFloat(m, e) ==
  IF m = 0 THEN [t |-> "float", m |-> 0, e |-> 0]
  ELSE IF m % 10 = 0 THEN NormalFloat(m \div 10, e + 1)
  ELSE [t |-> "float", m |-> m, e |-> e]

\* float(s)
PyFloat(s) ==
  LET u == Unsigned(s)
      m == Mantissa(u)
      digits == ParseDigits(IntegerDigits(m) \o FractionDigits(m))
      exp == IF IndexOf(u, "e") = 0 THEN 0 ELSE PyInt(ExponentPart(u))
  IN NormalFloat(IF HasSign(s) THEN 0 - digits ELSE digits,
                 exp - Len(FractionDigits(m)))

PyNone == [t |-> "null"]

\* a faulty variant of ParseNumeric: the float parse is tried first
ParseNumericFloatFirst(raw) ==
  IF raw \in MISSING_VALUES THEN PyNone
  ELSE IF PyFloatParses(raw) THEN PyFloat(raw)
  ELSE IF PyIntParses(raw) THEN [t |-> "int", v |-> PyInt(raw)]
  ELSE [t |-> "str", s |-> raw]

\* _parse_numeric
ParseNumeric(raw) ==
  IF raw \in MISSING_VALUES THEN PyNone
  ELSE IF PyIntParses(raw) THEN [t |-> "int", v |-> PyInt(raw)]
  ELSE IF PyFloatParses(raw) THEN PyFloat(raw)
  ELSE [t |-> "str", s |-> raw]

\* the JSON values that are no list
JsonAtoms ==
  {PyNone,
   [t |-> "dict", keys |-> {}], [t |-> "dict", keys |-> {"a"}],
   [t |-> "dict", keys |-> {"b"}],
   [t |-> "str", s |-> << >>], [t |-> "str", s |-> <<"s">>],
   [t |-> "int", v |-> 0], [t |-> "int", v |-> 1]}

JsonList(items) == [t |-> "list", items |-> items]

\* the arguments of _ensure_list
JsonValues == JsonAtoms \cup {JsonList(l) : l \in SeqsOf(JsonAtoms, 0, MaxListLen)}

\* bool(obj)
Truthy(obj) ==
  CASE obj.t = "null" -> FALSE
    [] obj.t = "dict" -> obj.keys # {}
    [] obj.t = "str" -> Len(obj.s) > 0
    [] obj.t = "int" -> obj.v # 0
    [] obj.t = "list" -> Len(obj.items) > 0

\* a faulty variant of EnsureList: a list is wrapped like any other value
EnsureListWrapsLists(obj) ==
  IF Truthy(obj) THEN JsonList(<<obj>>) ELSE JsonList(<< >>)

\* _ensure_list
EnsureList(obj) ==
  IF obj.t = "list" THEN obj
  ELSE IF Truthy(obj) THEN JsonList(<<obj>>)
  ELSE JsonList(<< >>)

\* str(x) of a JSON number or string
PyStr(x) == IF x.t = "int" THEN NatToStr(x.v) ELSE x.s

\* the NEXT_KEY values of a response (result_inf.get("NEXT_KEY") is None for
\* a missing key and for JSON null alike)
NextKeyValues ==
  {[t |-> "int", v |-> 0], [t |-> "int", v |-> 7], [t |-> "int", v |-> 101],
   [t |-> "str", s |-> << >>], [t |-> "str", s |-> <<"0", "7">>],
   [t |-> "str", s |-> <<"x">>]}

\* the texts under "$" of the value nodes of a response
ValueTexts == {<<"1">>, <<"1", ".", "0">>, <<"-">>, <<"x", "x">>}

\* a value node: a dict with its "$" (None when the key is missing)
ValueNodes == [t : {"dict"}, keys : {{"@tab"}}, text : {None} \cup {Some(x) : x \in ValueTexts}]

\* the parts of a getStatsData response that get_data reads: RESULT_INF's
\* TOTAL_NUMBER and NEXT_KEY, and DATA_INF's VALUE (None when missing, else a
\* node or a list of nodes)
DataResponses ==
  [TOTAL_NUMBER : {None} \cup {Some(n) : n \in TotalCounts},
   NEXT_KEY : {None} \cup {Some(k) : k \in NextKeyValues},
   VALUE : {None} \cup {Some(n) : n \in ValueNodes}
           \cup {Some(JsonList(l)) : l \in SeqsOf(ValueNodes, 0, MaxValueNodes)}]

\* a faulty variant of NextKeyOf: the token is tested for truth, not for None
NextKeyOfTruthy(raw) ==
  IF ~IsNone(raw) /\ Truthy(The(raw)) THEN Some(PyStr(The(raw))) ELSE None

\* next_key = str(next_key_raw) if next_key_raw is not None else None
NextKeyOf(raw) == IF IsNone(raw) THEN None ELSE Some(PyStr(The(raw)))

\* the value of one DataValue: _parse_numeric(str(raw_val)) unless "$" is missing
ValueOf(node) == IF IsNone(node.text) THEN PyNone ELSE ParseNumeric(The(node.text))

\* the parsing part of get_data: the StatsData built from a response
GetDataParse(resp) ==
  LET nodes == EnsureList(IF IsNone(resp.VALUE) THEN JsonList(<< >>)
                          ELSE The(resp.VALUE)).items
      values == [i \in 1..Len(nodes) |-> ValueOf(nodes[i])]
  IN [total_count |-> IF IsNone(resp.TOTAL_NUMBER) THEN Len(values)
                      ELSE The(resp.TOTAL_NUMBER),
      values |-> values,
      next_key |-> NextKeyOf(resp.NEXT_KEY)]

VARIABLES
  \* ---- one call of a parsing helper (a behaviour makes one call) ----
  pf_name,    \* the function called ("" before the call)
  pf_arg,     \* its argument
  pf_result   \* what it returned

pf_vars == <<pf_name, pf_arg, pf_result>>

PfInit ==
  /\ pf_name = ""
  /\ pf_arg = None
  /\ pf_result = None

\* _parse_numeric(raw)
ParseNumericCall ==
  \E raw \in RawTexts :
    /\ pf_name = ""
    /\ pf_name' = "_parse_numeric"
    /\ pf_arg' = raw
    /\ pf_result' = ParseNumeric(raw)

\* _ensure_list(obj)
EnsureListCall ==
  \E obj \in JsonValues :
    /\ pf_name = ""
    /\ pf_name' = "_ensure_list"
    /\ pf_arg' = obj
    /\ pf_result' = EnsureList(obj)

\* get_data, from the decoded response on
GetDataParseCall ==
  \E resp \in DataResponses :
    /\ pf_name = ""
    /\ pf_name' = "get_data"
    /\ pf_arg' = resp
    /\ pf_result' = GetDataParse(resp)

(***************************************************************************)
(* get_meta, from the decoded response on                                  *)
(*                                                                         *)
(* The for loop over class_objs is one step per class object.  The         *)
(* response is read as the loop goes: the call fixes the shape of          *)
(* CLASS_OBJ, each step the class object it meets.                         *)
(***************************************************************************)
\* most class objects in CLASS_OBJ
MaxClassObjs == 2
\* most classes in the CLASS of one class object
MaxClasses == 1

\* the @id of a class object (None when the key is missing)
ClassObjIds ==
  {None, Some(<<"t", "a", "b">>), Some(<<"t", "i", "m", "e">>),
   Some(<<"a", "r", "e", "a">>), Some(<<"c", "a", "t", "0", "1">>),
   Some(<<"c", "a", "t", "0", "2">>), Some(<<"c", "a">>)}

\* the @level of a class (None when the key is missing)
LevelTexts == {None, Some(<<"2">>), Some(<<"x">>)}

\* a class: a dict with @code "A" and possibly @level
ClassNode(level) ==
  [t |-> "dict",
   keys |-> {"@code"} \cup (IF IsNone(level) THEN {} ELSE {"@level"}),
   level |-> level]

ClassNodes == {ClassNode(l) : l \in LevelTexts}

\* what obj.get("CLASS") finds: nothing, one class, or a list of classes
ClassValues ==
  {None} \cup {Some(c) : c \in ClassNodes}
  \cup {Some(JsonList(l)) : l \in SeqsOf(ClassNodes, 0, MaxClasses)}

\* the class objects
ClassObjs == [id : ClassObjIds, CLASS : ClassValues]

\* what class_inf.get("CLASS_OBJ") finds, by shape: nothing, an empty dict,
\* one class object, or a list of class objects
ClassObjShape == [t |-> "dict", keys |-> {"@id", "CLASS"}]

ClassObjValues ==
  {None, Some([t |-> "dict", keys |-> {}]), Some(ClassObjShape)}
  \cup {Some(JsonList([i \in 1..n |-> ClassObjShape])) : n \in 0..MaxClassObjs}

\* s.startswith(p)
StartsWith(s, p) == Len(s) >= Len(p) /\ SubSeq(s, 1, Len(p)) = p

\* a faulty variant of Route: the prefix test is for "ca"
RouteShortPrefix(obj_id) ==
  IF obj_id = <<"t", "a", "b">> THEN "table_items"
  ELSE IF obj_id = <<"t", "i", "m", "e">> THEN "time_items"
  ELSE IF obj_id = <<"a", "r", "e", "a">> THEN "area_items"
  ELSE IF StartsWith(obj_id, <<"c", "a">>) THEN "classification_items"
  ELSE "nowhere"

\* the if / elif chain on obj_id: the variable the items are assigned to
Route(obj_id) ==
  IF obj_id = <<"t", "a", "b">> THEN "table_items"
  ELSE IF obj_id = <<"t", "i", "m", "e">> THEN "time_items"
  ELSE IF obj_id = <<"a", "r", "e", "a">> THEN "area_items"
  ELSE IF StartsWith(obj_id, <<"c", "a", "t">>) THEN "classification_items"
  ELSE "nowhere"

\* c.get("@level", "1")
LevelArg(c) == IF IsNone(c.level) THEN <<"1">> ELSE The(c.level)

\* int(c.get("@level", "1")) raises ValueError
LevelRaises(c) == ~PyIntParses(LevelArg(c))

\* MetaItem(code=..., name=..., level=int(...), unit=...), by code and level
MetaItemOf(c) == [code |-> "A", level |-> PyInt(LevelArg(c))]

\* classification_items[obj_id] = items
DictSet(d, k, v) == [x \in DOMAIN d \cup {k} |-> IF x = k THEN v ELSE d[x]]

VARIABLES
  \* ---- one call of get_meta ----
  gm_pc,                 \* "idle" | "loop" | "returned" | "raised"
  gm_left,               \* class objects of class_objs still to come
  table_items,
  classification_items,  \* a function from obj_id to items
  time_items,
  area_items,
  gm_obj_id,             \* obj_id of the last loop step
  gm_classes,            \* classes of the last loop step
  gm_items,              \* items of the last loop step
  gm_result              \* the StatsMeta returned (None until then)

gm_buckets == <<table_items, classification_items, time_items, area_items>>

gm_vars ==
  <<gm_pc, gm_left, gm_buckets, gm_obj_id, gm_classes, gm_items, gm_result>>

GmInit ==
  /\ gm_pc = "idle"
  /\ gm_left = 0
  /\ table_items = << >>
  /\ classification_items = << >>
  /\ time_items = << >>
  /\ area_items = << >>
  /\ gm_obj_id = << >>
  /\ gm_classes = << >>
  /\ gm_items = << >>
  /\ gm_result = None

\* get_meta up to the loop: class_objs = _ensure_list(...), empty buckets
GetMetaCall ==
  /\ gm_pc = "idle"
  /\ \E v \in ClassObjValues :
       gm_left' = Len(EnsureList(IF IsNone(v) THEN JsonList(<< >>) ELSE The(v)).items)
  /\ gm_pc' = "loop"
  /\ UNCHANGED <<gm_buckets, gm_obj_id, gm_classes, gm_items, gm_result>>

\* one pass of the loop body
LoopBody(obj) ==
  LET obj_id == IF IsNone(obj.id) THEN << >> ELSE The(obj.id)
      classes == EnsureList(IF IsNone(obj.CLASS) THEN JsonList(<< >>)
                            ELSE The(obj.CLASS)).items
      items == [i \in 1..Len(classes) |-> MetaItemOf(classes[i])]
  IN /\ gm_obj_id' = obj_id
     /\ gm_classes' = classes
     /\ gm_result' = gm_result
     /\ IF \E i \in 1..Len(classes) : LevelRaises(classes[i])
        THEN /\ gm_pc' = "raised"
             /\ gm_items' = << >>
             /\ UNCHANGED <<gm_left, gm_buckets>>
        ELSE /\ gm_pc' = "loop"
             /\ gm_left' = gm_left - 1
             /\ gm_items' = items
             /\ table_items' =
                  IF Route(obj_id) = "table_items" THEN items ELSE table_items
             /\ time_items' =
                  IF Route(obj_id) = "time_items" THEN items ELSE time_items
             /\ area_items' =
                  IF Route(obj_id) = "area_items" THEN items ELSE area_items
             /\ classification_items' =
                  IF Route(obj_id) = "classification_items"
                  THEN DictSet(classification_items, obj_id, items)
                  ELSE classification_items

GetMetaLoopStep ==
  /\ gm_pc = "loop"
  /\ gm_left > 0
  /\ \E obj \in ClassObjs : LoopBody(obj)

\* return StatsMeta(...)
GetMetaReturns ==
  /\ gm_pc = "loop"
  /\ gm_left = 0
  /\ gm_pc' = "returned"
  /\ gm_result' = Some([table_items |-> table_items,
                        classification_items |-> classification_items,
                        time_items |-> time_items,
                        area_items |-> area_items])
  /\ UNCHANGED <<gm_left, gm_buckets, gm_obj_id, gm_classes, gm_items>>

(***************************************************************************)
(* EstatClient as an async context manager:                                *)
(*     async with EstatClient(...) as client:  <block>                     *)
(* The block makes a request through _get_json; it can end normally, or    *)
(* with an error: the one the request raised, a cancellation delivered at  *)
(* an await of the request, or an error of the block's own code.           *)
(***************************************************************************)
VARIABLES
  ses_pc,       \* "outside", "inside" (in the block), "aclose" (__aexit__
                \* awaiting self._http.aclose() inside close), "left"
  ses_exc,      \* Optional: the type of the error the block ended with
  http_closed   \* self._http is closed

ses_vars == <<ses_pc, ses_exc, http_closed>>

SesInit ==
  /\ ses_pc = "outside"
  /\ ses_exc = None
  /\ http_closed = FALSE

\* the request of the block is at an await
RequestInFlight == rq_pc \in {"limiter", "get", "sleep"}

\* the error an error exit of the block carries
BlockError ==
  IF RequestInFlight THEN "CancelledError"
  ELSE IF gj_outcome = "raised" THEN The(gj_value).type
  ELSE "Exception"

\* a faulty variant of AExitCloses: close is called on a normal exit only
AExitClosesOnSuccessOnly(exc) == IsNone(exc)

\* __aexit__(self, *args) calls self.close() whatever args are
AExitCloses(exc) == TRUE

\* __init__ opens self._http; __aenter__ returns self
AEnter ==
  /\ ses_pc = "outside"
  /\ ses_pc' = "inside"
  /\ UNCHANGED <<ses_exc, http_closed>>

\* the block is left with exc: __aexit__ runs to the await in close
AExit(exc) ==
  /\ ses_exc' = exc
  /\ ses_pc' = IF AExitCloses(exc) THEN "aclose" ELSE "left"
  /\ UNCHANGED http_closed

\* the block runs to its end
BlockCompletes ==
  /\ ses_pc = "inside"
  /\ ~RequestInFlight
  /\ AExit(None)

\* an error leaves the block
BlockRaises ==
  /\ ses_pc = "inside"
  /\ AExit(Some(BlockError))

\* await self._http.aclose() completes; __aexit__ returns None, so an error
\* of the block goes on to the caller
AcloseDone ==
  /\ ses_pc = "aclose"
  /\ http_closed' = TRUE
  /\ ses_pc' = "left"
  /\ UNCHANGED ses_exc

\* the block is running
InBlock == ses_pc = "inside"

(***************************************************************************)
(* The data tools of server.py: get_statistic_data, get_all_statistic_data *)
(* from the return of the client call on                                   *)
(***************************************************************************)
\* how far past the output limit the underlying results go
MaxOverflow == 2

\* data.values[:100]
OutputLimit == 100

\* s[:n]
Prefix(s, n) == IF Len(s) <= n THEN s ELSE SubSeq(s, 1, n)

\* the dict get_statistic_data returns
GetStatisticDataRecord(data) ==
  [total_count |-> data.total_count,
   values |-> Prefix(data.values, OutputLimit),
   has_more |-> ~IsNone(data.next_key),
   next_key |-> data.next_key]

\* the dict get_all_statistic_data returns
GetAllStatisticDataRecord(data) ==
  [total_count |-> data.total_count,
   fetched_count |-> Len(data.values),
   values |-> Prefix(data.values, OutputLimit),
   has_more |-> ~IsNone(data.next_key),
   note |-> IF Len(data.values) > OutputLimit
            THEN Some("First 100 records shown.") ELSE None]

\* the StatsData a client call hands to a tool: its n values are numbered 1..n
ToolInputs ==
  [total_count : TotalCounts,
   values : {[i \in 1..n |-> i] : n \in 0..(OutputLimit + MaxOverflow)},
   next_key : {None, Some(<<"7">>)}]

VARIABLES
  \* ---- one call of a data tool (a behaviour makes one call) ----
  tool_name,    \* the tool called ("" before the call)
  tool_data,    \* Optional: the StatsData the client returned to it
  tool_record   \* Optional: the dict the tool returned

tool_vars == <<tool_name, tool_data, tool_record>>

ToolInit ==
  /\ tool_name = ""
  /\ tool_data = None
  /\ tool_record = None

\* get_statistic_data: client.get_data returns data, the tool its dict
GetStatisticDataTool ==
  /\ tool_name = ""
  /\ \E data \in ToolInputs :
       /\ tool_name' = "get_statistic_data"
       /\ tool_data' = Some(data)
       /\ tool_record' = Some(GetStatisticDataRecord(data))

\* get_all_statistic_data: client.get_all_data returns data, the tool its dict
GetAllStatisticDataTool ==
  /\ tool_name = ""
  /\ \E data \in ToolInputs :
       /\ tool_name' = "get_all_statistic_data"
       /\ tool_data' = Some(data)
       /\ tool_record' = Some(GetAllStatisticDataRecord(data))

(***************************************************************************)
(* server.py: the shared client (_client, _client_lock, _get_client) and   *)
(* the lifespan of the server                                              *)
(*                                                                         *)
(* A client instance is named by its number: the k-th EstatClient          *)
(* constructed is k, and 0 stands for None.  The tasks of tool calls       *)
(* interleave at the awaits of _get_client; "async with _client_lock" is   *)
(* taken as a point where a task can be suspended whether or not the lock  *)
(* is free, which allows every schedule asyncio can produce and more.      *)
(***************************************************************************)
\* concurrent tool calls
MaxToolCalls == 3

ToolCalls == 1..MaxToolCalls

VARIABLES
  shared_client,   \* _client: 0 (None) or the instance
  client_lock,     \* _client_lock: 0 (free) or the task holding it
  constructed,     \* the number of EstatClient() constructed so far
  gc_pc,           \* per task: "idle", "acquire" (at async with _client_lock),
                   \* "inside" (holding the lock), "returned"
  gc_ret,          \* per task: what _get_client returned (0 until then)
  ls_pc,           \* _lifespan: "starting", "serving" (at the yield),
                   \* "closing" (awaiting _client.close()), "ended"
  ls_exit,         \* how the server left the lifespan: "", "normal", "error"
  closed_clients   \* the instances whose close() has run

srv_vars == <<shared_client, client_lock, constructed, gc_pc, gc_ret, ls_pc,
              ls_exit, closed_clients>>

SrvInit ==
  /\ shared_client = 0
  /\ client_lock = 0
  /\ constructed = 0
  /\ gc_pc = [t \in ToolCalls |-> "idle"]
  /\ gc_ret = [t \in ToolCalls |-> 0]
  /\ ls_pc = "starting"
  /\ ls_exit = ""
  /\ closed_clients = {}

\* a faulty variant of StillUnset: no second test under the lock
AlwaysUnset(c) == TRUE

\* the second test, under the lock: if _client is None
StillUnset(c) == c = 0

\* _lifespan runs to its yield: the server starts serving
LifespanEnter ==
  /\ ls_pc = "starting"
  /\ ls_pc' = "serving"
  /\ UNCHANGED <<shared_client, client_lock, constructed, gc_pc, gc_ret,
                 ls_exit, closed_clients>>

\* a tool calls _get_client: the first test, then the return or the lock
GetClientCall(t) ==
  /\ ls_pc = "serving"
  /\ gc_pc[t] = "idle"
  /\ IF shared_client # 0
     THEN /\ gc_pc' = [gc_pc EXCEPT ![t] = "returned"]
          /\ gc_ret' = [gc_ret EXCEPT ![t] = shared_client]
     ELSE /\ gc_pc' = [gc_pc EXCEPT ![t] = "acquire"]
          /\ gc_ret' = gc_ret
  /\ UNCHANGED <<shared_client, client_lock, constructed, ls_pc, ls_exit,
                 closed_clients>>

\* the task gets _client_lock
ClientLockAcquired(t) ==
  /\ ls_pc = "serving"
  /\ gc_pc[t] = "acquire"
  /\ client_lock = 0
  /\ client_lock' = t
  /\ gc_pc' = [gc_pc EXCEPT ![t] = "inside"]
  /\ UNCHANGED <<shared_client, constructed, gc_ret, ls_pc, ls_exit,
                 closed_clients>>

\* the body of the async with, the release of the lock and the return
UnderClientLock(t) ==
  /\ ls_pc = "serving"
  /\ gc_pc[t] = "inside"
  /\ LET new == IF StillUnset(shared_client) THEN constructed + 1
                ELSE shared_client
     IN /\ shared_client' = new
        /\ constructed' = IF StillUnset(shared_client) THEN constructed + 1
                          ELSE constructed
        /\ gc_ret' = [gc_ret EXCEPT ![t] = new]
  /\ client_lock' = 0
  /\ gc_pc' = [gc_pc EXCEPT ![t] = "returned"]
  /\ UNCHANGED <<ls_pc, ls_exit, closed_clients>>

\* the server shuts down normally: _lifespan resumes after its yield
ServerStops ==
  /\ ls_pc = "serving"
  /\ ls_exit' = "normal"
  /\ ls_pc' = IF shared_client # 0 THEN "closing" ELSE "ended"
  /\ UNCHANGED <<shared_client, client_lock, constructed, gc_pc, gc_ret,
                 closed_clients>>

\* the server ends with an error: the error is raised in _lifespan at its
\* yield, which no try encloses, so the code after the yield does not run
ServerFails ==
  /\ ls_pc = "serving"
  /\ ls_exit' = "error"
  /\ ls_pc' = "ended"
  /\ UNCHANGED <<shared_client, client_lock, constructed, gc_pc, gc_ret,
                 closed_clients>>

\* await _client.close() completes
LifespanCloseDone ==
  /\ ls_pc = "closing"
  /\ closed_clients' = closed_clients \cup {shared_client}
  /\ ls_pc' = "ended"
  /\ UNCHANGED <<shared_client, client_lock, constructed, gc_pc, gc_ret, ls_exit>>

(***************************************************************************)
(* Specifications                                                          *)
(***************************************************************************)
vars == <<ga_vars, rq_vars, lim_vars, pf_vars, gm_vars, ses_vars, tool_vars, srv_vars>>

Init == GaInit /\ RqInit /\ LimIdle /\ PfInit /\ GmInit /\ SesInit /\ ToolInit /\ SrvInit

PagingNext ==
  \/ GetAllDataCall /\ UNCHANGED <<rq_vars, lim_vars, pf_vars, gm_vars, ses_vars, tool_vars, srv_vars>>
  \/ GetDataReturns /\ UNCHANGED <<rq_vars, lim_vars, pf_vars, gm_vars, ses_vars, tool_vars, srv_vars>>
  \/ GetDataRaises /\ UNCHANGED <<rq_vars, lim_vars, pf_vars, gm_vars, ses_vars, tool_vars, srv_vars>>

TransportNext ==
  \/ GetJsonCall /\ UNCHANGED <<ga_vars, lim_vars, pf_vars, gm_vars, ses_vars, tool_vars, srv_vars>>
  \/ LimiterWaitDone /\ UNCHANGED <<ga_vars, lim_vars, pf_vars, gm_vars, ses_vars, tool_vars, srv_vars>>
  \/ HttpGetResponds /\ UNCHANGED <<ga_vars, lim_vars, pf_vars, gm_vars, ses_vars, tool_vars, srv_vars>>
  \/ HttpGetTimesOut /\ UNCHANGED <<ga_vars, lim_vars, pf_vars, gm_vars, ses_vars, tool_vars, srv_vars>>
  \/ HttpGetFails /\ UNCHANGED <<ga_vars, lim_vars, pf_vars, gm_vars, ses_vars, tool_vars, srv_vars>>
  \/ BackoffSleepDone /\ UNCHANGED <<ga_vars, lim_vars, pf_vars, gm_vars, ses_vars, tool_vars, srv_vars>>

LimiterNext ==
  \/ \E c \in Callers : WaitCall(c) /\ UNCHANGED <<ga_vars, rq_vars, pf_vars, gm_vars, ses_vars, tool_vars, srv_vars>>
  \/ \E c \in Callers : LockAcquired(c) /\ UNCHANGED <<ga_vars, rq_vars, pf_vars, gm_vars, ses_vars, tool_vars, srv_vars>>
  \/ \E c \in Callers : LimiterSleepDone(c) /\ UNCHANGED <<ga_vars, rq_vars, pf_vars, gm_vars, ses_vars, tool_vars, srv_vars>>
  \/ \E c \in Callers : RetryAfterBackoff(c) /\ UNCHANGED <<ga_vars, rq_vars, pf_vars, gm_vars, ses_vars, tool_vars, srv_vars>>
  \/ \E c \in Callers : RequestDone(c) /\ UNCHANGED <<ga_vars, rq_vars, pf_vars, gm_vars, ses_vars, tool_vars, srv_vars>>
  \/ Tick /\ UNCHANGED <<ga_vars, rq_vars, pf_vars, gm_vars, ses_vars, tool_vars, srv_vars>>

\* the limiter of one client, of any rate, used by concurrent tasks
InitLimiter == GaInit /\ RqInit /\ LimInit /\ PfInit /\ GmInit /\ SesInit /\ ToolInit /\ SrvInit

SpecLimiter == InitLimiter /\ [][LimiterNext]_vars

others_than_lim == <<ga_vars, rq_vars, pf_vars, gm_vars, ses_vars, tool_vars, srv_vars>>

\* the scheduler is fair to what the event loop itself carries out: the clock
\* advances, a sleep of the gate that is due ends, a task woken by the
\* release of the lock runs.  Nothing is assumed of the tasks' own choices:
\* new requests, the end of a request, the end of a backoff sleep.
LimiterFairness ==
  /\ WF_vars(Tick /\ UNCHANGED others_than_lim)
  /\ \A c \in Callers : WF_vars(LimiterSleepDone(c) /\ UNCHANGED others_than_lim)
  /\ \A c \in Callers : WF_vars(LockAcquired(c) /\ UNCHANGED others_than_lim)

\* a limiter constructed with a positive rate
InitLimiterFair == InitLimiter /\ lim_rate > 0

\* the limiter of a positive rate under a fair scheduler
SpecLimiterFair == InitLimiterFair /\ [][LimiterNext]_vars /\ LimiterFairness

ParsersNext ==
  \/ ParseNumericCall /\ UNCHANGED <<ga_vars, rq_vars, lim_vars, gm_vars, ses_vars, tool_vars, srv_vars>>
  \/ EnsureListCall /\ UNCHANGED <<ga_vars, rq_vars, lim_vars, gm_vars, ses_vars, tool_vars, srv_vars>>
  \/ GetDataParseCall /\ UNCHANGED <<ga_vars, rq_vars, lim_vars, gm_vars, ses_vars, tool_vars, srv_vars>>

\* calls of the parsing helpers, on every input of the bounded sets
SpecParsers == Init /\ [][ParsersNext]_vars

MetaNext ==
  \/ GetMetaCall /\ UNCHANGED <<ga_vars, rq_vars, lim_vars, pf_vars, ses_vars, tool_vars, srv_vars>>
  \/ GetMetaLoopStep /\ UNCHANGED <<ga_vars, rq_vars, lim_vars, pf_vars, ses_vars, tool_vars, srv_vars>>
  \/ GetMetaReturns /\ UNCHANGED <<ga_vars, rq_vars, lim_vars, pf_vars, ses_vars, tool_vars, srv_vars>>

\* one call of get_meta on every response of the bounded sets
SpecMeta == Init /\ [][MetaNext]_vars

SessionNext ==
  \/ AEnter /\ UNCHANGED <<ga_vars, rq_vars, lim_vars, pf_vars, gm_vars, tool_vars, srv_vars>>
  \/ InBlock /\ GetJsonCall /\ UNCHANGED <<ga_vars, lim_vars, pf_vars, gm_vars, ses_vars, tool_vars, srv_vars>>
  \/ InBlock /\ LimiterWaitDone /\ UNCHANGED <<ga_vars, lim_vars, pf_vars, gm_vars, ses_vars, tool_vars, srv_vars>>
  \/ InBlock /\ HttpGetResponds /\ UNCHANGED <<ga_vars, lim_vars, pf_vars, gm_vars, ses_vars, tool_vars, srv_vars>>
  \/ InBlock /\ HttpGetTimesOut /\ UNCHANGED <<ga_vars, lim_vars, pf_vars, gm_vars, ses_vars, tool_vars, srv_vars>>
  \/ InBlock /\ HttpGetFails /\ UNCHANGED <<ga_vars, lim_vars, pf_vars, gm_vars, ses_vars, tool_vars, srv_vars>>
  \/ InBlock /\ BackoffSleepDone /\ UNCHANGED <<ga_vars, lim_vars, pf_vars, gm_vars, ses_vars, tool_vars, srv_vars>>
  \/ BlockCompletes /\ UNCHANGED <<ga_vars, rq_vars, lim_vars, pf_vars, gm_vars, tool_vars, srv_vars>>
  \/ BlockRaises /\ UNCHANGED <<ga_vars, rq_vars, lim_vars, pf_vars, gm_vars, tool_vars, srv_vars>>
  \/ AcloseDone /\ UNCHANGED <<ga_vars, rq_vars, lim_vars, pf_vars, gm_vars, tool_vars, srv_vars>>

\* a client used as an async context manager around one request
SpecSession == Init /\ [][SessionNext]_vars

ToolsNext ==
  \/ GetStatisticDataTool /\ UNCHANGED <<ga_vars, rq_vars, lim_vars, pf_vars, gm_vars, ses_vars, srv_vars>>
  \/ GetAllStatisticDataTool /\ UNCHANGED <<ga_vars, rq_vars, lim_vars, pf_vars, gm_vars, ses_vars, srv_vars>>

\* one call of a data tool on every result of the bounded set
SpecTools == Init /\ [][ToolsNext]_vars

others_than_srv == <<ga_vars, rq_vars, lim_vars, pf_vars, gm_vars, ses_vars, tool_vars>>

ServerNext ==
  \/ LifespanEnter /\ UNCHANGED others_than_srv
  \/ \E t \in ToolCalls : GetClientCall(t) /\ UNCHANGED others_than_srv
  \/ \E t \in ToolCalls : ClientLockAcquired(t) /\ UNCHANGED others_than_srv
  \/ \E t \in ToolCalls : UnderClientLock(t) /\ UNCHANGED others_than_srv
  \/ ServerStops /\ UNCHANGED others_than_srv
  \/ ServerFails /\ UNCHANGED others_than_srv
  \/ LifespanCloseDone /\ UNCHANGED others_than_srv

\* the server from start to end, with concurrent tool calls of _get_client
SpecServer == Init /\ [][ServerNext]_vars

\* one call of get_all_data against a server that answers each page fetch
SpecPaging == Init /\ [][PagingNext]_vars

\* one call of _get_json against a server that answers each HTTP GET
SpecTransport == Init /\ [][TransportNext]_vars

(***************************************************************************)
(* Properties of get_all_data (checked under SpecPaging)                   *)
(***************************************************************************)
\* get_all_data has ended, and no page fetch of it failed
GaEnded == ga_pc \in {"returned", "raised"} /\ IsNone(ga_fetch_error)

\* the last page get_data returned carried a next_key
LastHasKey == ~IsNone(ga_last) /\ ~IsNone(The(ga_last).next_key)

\* the values of the fetched pages, concatenated in fetch order
RECURSIVE ConcatValues(_)
ConcatValues(pages) ==
  IF Len(pages) = 0 THEN << >>
  ELSE ConcatValues(SubSeq(pages, 1, Len(pages) - 1)) \o pages[Len(pages)].values

\* the sizes of the fetched pages, summed
RECURSIVE SumSizes(_)
SumSizes(pages) ==
  IF Len(pages) = 0 THEN 0
  ELSE SumSizes(SubSeq(pages, 1, Len(pages) - 1)) + Len(pages[Len(pages)].values)

Min(a, b) == IF a <= b THEN a ELSE b

\* a lower bound of min(max_pages, n), n the 1-based index of the first page
\* without a next_key: exact when a fetched page has none; when every fetched
\* page carried one, n is at least one more than the pages fetched
MinPagesOrFirstKeyless ==
  LET keyless == {i \in 1..Len(ga_fetched) : ~ga_fetched[i].has_key}
      n == IF keyless = {} THEN Len(ga_fetched) + 1
           ELSE CHOOSE i \in keyless : \A j \in keyless : i <= j
  IN Min(max_pages, n)

\* C1: with max_pages >= 1, when get_all_data returns after a last page that
\* carried no next_key (natural end), the merged result's next_key is None,
\* whatever the position 1 <= k <= max_pages of that last page.
C1_NaturalEndNextKeyNone ==
  (ga_pc = "returned" /\ max_pages >= 1 /\ ~IsNone(ga_last)
     /\ IsNone(The(ga_last).next_key))
  => IsNone(The(ga_result).next_key)

\* C2: with max_pages >= 1, when max_pages pages were fetched and the last of
\* them carried a next_key, get_all_data returns normally and the merged
\* result's next_key is that pending token.
C2_SafetyStopReportsToken ==
  (GaEnded /\ max_pages >= 1 /\ pages_fetched = max_pages /\ LastHasKey)
  => /\ ga_pc = "returned"
     /\ The(ga_result).next_key = The(ga_last).next_key

\* C3: the accumulated values are at every moment the concatenation, in fetch
\* order, of the values of the pages fetched so far, and so are the values of
\* the result; their count is the sum of the fetched pages' sizes.
C3_ValuesAreConcatenation ==
  /\ all_values = ConcatValues(ga_fetched)
  /\ Len(all_values) = SumSizes(ga_fetched)
  /\ ga_pc = "returned" => The(ga_result).values = ConcatValues(ga_fetched)

\* C3 witness: a result merged from three non-empty pages
C3_ThreePagesMerged ==
  /\ ga_pc = "returned"
  /\ Len(ga_fetched) = 3
  /\ \A i \in 1..3 : Len(ga_fetched[i].values) = 1
  /\ ga_fetched[1].values # ga_fetched[2].values
  /\ ga_fetched[2].values # ga_fetched[3].values

\* C4: when get_all_data has ended (no fetch having failed), it has made
\* exactly min(max_pages, n) page fetches, n the 1-based index of the first
\* page without a next_key.
C4_ExactlyMinFetches ==
  GaEnded => ga_ncalls = MinPagesOrFirstKeyless

(***************************************************************************)
(* Properties of the retrying transport (checked under SpecTransport)      *)
(***************************************************************************)
\* the i-th GET ended with a response of this status
RespondedWith(i, codes) ==
  rq_gets[i].kind = "response" /\ rq_gets[i].resp.status_code \in codes

\* the i-th GET ended with a retryable failure, as the specification lists them
RetryableFailure(i) ==
  rq_gets[i].kind = "timeout" \/ RespondedWith(i, {429, 500, 502, 503, 504})

\* the i-th GET ended with a non-2xx status outside the retryable set
NonRetryableStatus(i) ==
  /\ rq_gets[i].kind = "response"
  /\ ~(rq_gets[i].resp.status_code \in 200..299)
  /\ rq_gets[i].resp.status_code \notin {429, 500, 502, 503, 504}

\* a top-level value holds an object whose RESULT object has a STATUS that is
\* present and is not the number 0
NonZeroStatusIn(val) ==
  /\ val.t = "dict"
  /\ val.RESULT # None
  /\ The(val.RESULT).t = "dict"
  /\ The(val.RESULT).STATUS # None
  /\ The(val.RESULT).STATUS # Some([t |-> "int", v |-> 0])

\* the i-th GET ended with a 2xx response whose JSON body carries a non-zero
\* nested status
AppErrorResponse(i) ==
  /\ rq_gets[i].kind = "response"
  /\ rq_gets[i].resp.status_code \in 200..299
  /\ rq_gets[i].resp.body.json
  /\ \E k \in 1..Len(rq_gets[i].resp.body.data) :
       NonZeroStatusIn(rq_gets[i].resp.body.data[k])

\* the request failed with the API error
RaisedApiError ==
  gj_outcome = "raised" /\ The(gj_value).type = "EstatAPIError"

\* C5: a request makes at most 3 HTTP attempts; every attempt but the last
\* ended with a retryable failure, and a retryable failure ends the request
\* only as its third attempt (before that the loop goes on to the next
\* attempt); a success on attempt k is returned as the result after exactly
\* k attempts, and after a third retryable failure the request fails.
C5_AtMostThreeAttempts ==
  /\ Len(rq_gets) <= 3
  /\ \A i \in 1..(Len(rq_gets) - 1) : RetryableFailure(i)
  /\ rq_pc = "sleep" => attempt = Len(rq_gets) - 1 /\ Len(rq_gets) < 3
  /\ rq_pc \in {"limiter", "get"} => attempt = Len(rq_gets)
  /\ (rq_pc = "done" /\ RetryableFailure(Len(rq_gets)))
       => Len(rq_gets) = 3 /\ rr_outcome = "raised" /\ gj_outcome = "raised"
  /\ (Len(rq_gets) >= 1 /\ RespondedWith(Len(rq_gets), 200..299))
       => /\ rq_pc = "done"
          /\ rr_outcome = "returned"
          /\ rr_value = Some(rq_gets[Len(rq_gets)].resp)
  /\ (Len(rq_gets) >= 1 /\ ~RetryableFailure(Len(rq_gets))) => rq_pc = "done"

\* C5 witness: a 503 and a timeout, then a success returned on the third attempt
C5_SuccessOnThirdAttempt ==
  /\ rr_outcome = "returned"
  /\ Len(rq_gets) = 3
  /\ RespondedWith(1, {503})
  /\ rq_gets[2].kind = "timeout"

\* C6: the i-th backoff sleep (i = 1, 2) lasts 2^(i-1) time units; there is
\* one sleep per retryable failure of the first two attempts and no other:
\* none after the third attempt, none after a success, at most 2 in all.
C6_BackoffDoubles ==
  /\ Len(rq_sleeps) <= 2
  /\ \A i \in 1..Len(rq_sleeps) : rq_sleeps[i] = 2 ^ (i - 1)
  /\ Len(rq_sleeps) =
       Cardinality({i \in 1..Len(rq_gets) : i < 3 /\ RetryableFailure(i)})

\* C6 witness: three failed attempts, with sleeps of 1 then 2 and none after
\* the third
C6_TwoSleepsThenExhausted ==
  /\ rq_pc = "done"
  /\ Len(rq_gets) = 3
  /\ RetryableFailure(3)
  /\ rq_sleeps = <<1, 2>>

\* C7: a response whose status is neither 2xx nor retryable ends the request
\* on that attempt: it is the last attempt, the failure with that status is
\* raised to the caller, and no backoff sleep follows it.
C7_NonRetryableFailsAtOnce ==
  \A i \in 1..Len(rq_gets) :
    NonRetryableStatus(i)
    => /\ i = Len(rq_gets)
       /\ rq_pc = "done"
       /\ rr_outcome = "raised"
       /\ gj_outcome = "raised"
       /\ The(gj_value).detail = <<rq_gets[i].resp.status_code>>
       /\ Len(rq_sleeps) = i - 1

\* C7 witness: a 404 on the second attempt, after one retryable failure
C7_NotFoundOnSecondAttempt ==
  /\ Len(rq_gets) = 2
  /\ RespondedWith(2, {404})
  /\ rq_pc = "done"

\* C8: every HTTP-layer failure a request surfaces to its caller, a non-2xx
\* status (retryable and exhausted, or non-retryable) or a timeout, is raised
\* as EstatAPIError.
C8_HttpFailuresAreApiErrors ==
  (gj_outcome = "raised" /\ Len(rq_gets) >= 1
     /\ (RetryableFailure(Len(rq_gets)) \/ NonRetryableStatus(Len(rq_gets))))
  => The(gj_value).type = "EstatAPIError"

\* C9 as stated: a 2xx response whose JSON body carries a non-zero nested
\* status makes the request fail with the API error after exactly one HTTP
\* attempt and no backoff sleep.
C9_AppErrorAfterOneAttempt ==
  \A i \in 1..Len(rq_gets) :
    AppErrorResponse(i)
    => RaisedApiError /\ Len(rq_gets) = 1 /\ rq_sleeps = << >>

\* C9 as amended: a 2xx response whose JSON body carries a non-zero nested
\* status makes the request fail with the API error on the attempt that
\* received it: no HTTP attempt and no backoff sleep follows it (the sleeps
\* are those of the retryable failures before it), so a request whose first
\* response it is makes exactly one attempt and no sleep.
C9_AppErrorEndsRequest ==
  \A i \in 1..Len(rq_gets) :
    AppErrorResponse(i)
    => /\ RaisedApiError
       /\ rq_pc = "done"
       /\ i = Len(rq_gets)
       /\ Len(rq_sleeps) = i - 1
       /\ rq_waits = i
       /\ IsNone(The(gj_value).cause)

\* C9 witness: the application error arrives as the first response
C9_AppErrorOnFirstAttempt ==
  /\ Len(rq_gets) = 1
  /\ AppErrorResponse(1)
  /\ rq_pc = "done"

\* C10: for a decoded 2xx response, the status check raises the API error if
\* and only if some top-level key holds an object whose RESULT object has a
\* STATUS that is present and not 0; the message is then the ERROR_MSG of a
\* RESULT that has such a STATUS when it has one, and the generic fallback
\* naming the status otherwise; in every other case the data is returned.
C10_StatusCheckRaisesIffNonZero ==
  (rq_pc = "done" /\ rr_outcome = "returned" /\ The(rr_value).body.json)
  => LET data == The(rr_value).body.data
         bad == {k \in 1..Len(data) : NonZeroStatusIn(data[k])}
     IN IF bad = {}
        THEN gj_outcome = "returned" /\ gj_value = Some(data)
        ELSE /\ RaisedApiError
             /\ \E k \in bad :
                  LET r == The(data[k].RESULT) IN
                  The(gj_value).detail =
                    IF r.ERROR_MSG # None THEN <<The(r.ERROR_MSG)>>
                    ELSE <<"API error (status=", The(r.STATUS), ")">>

\* C10 witness: the check passes a STATUS 0 key and raises, with the fallback
\* message, for a second key whose RESULT has STATUS 100 and no ERROR_MSG
C10_FallbackMessageRaised ==
  /\ rq_pc = "done"
  /\ rr_outcome = "returned"
  /\ The(rr_value).body.json
  /\ Len(The(rr_value).body.data) = 2
  /\ The(rr_value).body.data[1] =
       [t |-> "dict",
        RESULT |-> Some([t |-> "dict", empty |-> FALSE,
                         STATUS |-> Some([t |-> "int", v |-> 0]),
                         ERROR_MSG |-> Some("E1")])]
  /\ RaisedApiError
  /\ The(gj_value).detail = <<"API error (status=", [t |-> "int", v |-> 100], ")">>

\* C11: every HTTP GET of a request, the first and each retry, is preceded by
\* one completed rate-limiter wait made for it: the completed waits number
\* the GETs issued (those that ended, and the one in flight), so a request
\* that ended after k attempts consumed exactly k limiter slots.
C11_OneLimiterWaitPerAttempt ==
  /\ rq_waits = Len(rq_gets) + (IF rq_pc = "get" THEN 1 ELSE 0)
  /\ rq_pc = "done" => rq_waits = Len(rq_gets)

\* C11 witness: a request that ended after three attempts
C11_ThreeAttemptsThreeSlots ==
  /\ rq_pc = "done"
  /\ Len(rq_gets) = 3
  /\ rq_waits = 3

(***************************************************************************)
(* Properties of the rate limiter (checked under SpecLimiter)              *)
(***************************************************************************)
\* the tasks inside the gate: suspended in its sleep, holding the lock
InGate == {c \in Callers : lim_pc[c] = "sleeping"}

\* the two times of a history are at least 1/rate apart
ApartByInterval(hist) ==
  Len(hist) = 2 => (hist[2] - hist[1]) * lim_rate >= TicksPerSecond

\* C12: with rate > 0 and any interleaving of the tasks' calls, the start
\* times of two consecutive outbound HTTP requests are at least 1/rate apart.
C12_RequestStartsSpaced ==
  lim_rate > 0 => ApartByInterval(lim_starts)

\* C12 witness: two tasks with requests out at once, started exactly one
\* interval apart, the second after sleeping in the gate
C12_ConcurrentRequestsSpaced ==
  /\ lim_rate = 1
  /\ \A c \in Callers : lim_pc[c] = "requesting"
  /\ Len(lim_starts) = 2
  /\ lim_starts[2] - lim_starts[1] = TicksPerSecond
  /\ \E c \in Callers : lim_wake[c] = lim_starts[2]

\* C13: with rate > 0 at most one task is inside the gate at any time and it
\* holds the lock; across a step in which a task stays asleep in the gate the
\* last-request timestamp is unchanged and no other task passes the gate; the
\* timestamps of successive grants are at least 1/rate apart.
C13_OneCallerInGate ==
  /\ [](lim_rate > 0 =>
          /\ Cardinality(InGate) <= 1
          /\ InGate # {} => lim_locked
          /\ ApartByInterval(lim_grants))
  /\ [][(lim_rate > 0 /\ \E c \in Callers :
            lim_pc[c] = "sleeping" /\ lim_pc'[c] = "sleeping")
        => /\ lim_last' = lim_last
           /\ lim_grants' = lim_grants
           /\ \A d \in Callers :
                lim_pc'[d] \in {"requesting", "sleeping"} => lim_pc'[d] = lim_pc[d]]_vars

\* C13 witness: one task asleep in the gate while another queues behind it
C13_OneSleepsOneQueues ==
  /\ lim_rate > 0
  /\ \E c \in Callers : lim_pc[c] = "sleeping" /\ lim_now < lim_wake[c]
  /\ \E d \in Callers : lim_pc[d] = "queued"

\* C14: a limiter of rate <= 0 is disabled: no call of wait() sleeps or
\* queues behind another (every task is outside wait(): idle, with its
\* request out, or in the backoff sleep of its retry loop),
\* the lock is never taken and the last-request timestamp never changes.
C14_DisabledLimiterNeverWaits ==
  lim_rate <= 0 =>
    /\ lim_interval = 0
    /\ \A c \in Callers : lim_pc[c] \in {"idle", "requesting", "backoff"}
    /\ ~lim_locked
    /\ lim_waiters = << >>
    /\ lim_last = 0
    /\ lim_grants = << >>

\* C14 witness: with rate 0 every task has a request out at the same tick,
\* one of them its second
C14_AllRequestsAtOnce ==
  /\ lim_rate = 0
  /\ lim_now = ClockStart
  /\ \A c \in Callers : lim_pc[c] = "requesting"
  /\ \E c \in Callers : lim_calls[c] = 2

(***************************************************************************)
(* Properties of the parsing helpers                                       *)
(***************************************************************************)
\* the sentinels of missing data
Sentinels ==
  {<<"-">>, <<"*", "*", "*">>, <<"x">>, <<"X">>, <<".", ".", ".">>, <<Ellipsis>>}

\* C15: _parse_numeric returns None for a text that is one of the sentinels
\* "-", "***", "x", "X", "...", U+2026; otherwise the integer when the text
\* parses as an integer; otherwise the float when it parses as a float;
\* otherwise the text itself; it always returns one of these, and a text that
\* parses as an integer never comes back as a float.
C15_SentinelIntFloatText ==
  pf_name = "_parse_numeric" =>
    /\ pf_arg \in Sentinels => pf_result = [t |-> "null"]
    /\ pf_arg \notin Sentinels /\ PyIntParses(pf_arg) =>
         pf_result = [t |-> "int", v |-> PyInt(pf_arg)]
    /\ pf_arg \notin Sentinels /\ ~PyIntParses(pf_arg) /\ PyFloatParses(pf_arg) =>
         pf_result = PyFloat(pf_arg)
    /\ pf_arg \notin Sentinels /\ ~PyIntParses(pf_arg) /\ ~PyFloatParses(pf_arg) =>
         pf_result = [t |-> "str", s |-> pf_arg]
    /\ pf_result.t \in {"null", "int", "float", "str"}
    /\ PyIntParses(pf_arg) => pf_result.t # "float"

\* C15 witness: "10" parses as an integer and as a float, and comes back as
\* the integer 10.
C15_TenStaysInteger ==
  /\ pf_name = "_parse_numeric"
  /\ pf_arg = <<"1", "0">>
  /\ PyFloatParses(pf_arg)
  /\ pf_result = [t |-> "int", v |-> 10]

\* C16: _ensure_list returns a list unchanged, wraps a non-empty dict in a
\* one-element list, returns the empty list for None, an empty dict and an
\* empty list, and applying it to its own result changes nothing.
C16_EnsureListShapes ==
  pf_name = "_ensure_list" =>
    /\ pf_arg.t = "list" => pf_result = pf_arg
    /\ pf_arg.t = "dict" /\ pf_arg.keys # {} =>
         pf_result = [t |-> "list", items |-> <<pf_arg>>]
    /\ \/ pf_arg.t = "null"
       \/ pf_arg.t = "dict" /\ pf_arg.keys = {}
       \/ pf_arg.t = "list" /\ pf_arg.items = << >>
       => pf_result = [t |-> "list", items |-> << >>]
    /\ EnsureList(pf_result) = pf_result

\* C16 witness: a list of two dicts came back as it was.
C16_ListOfTwoUnchanged ==
  /\ pf_name = "_ensure_list"
  /\ pf_arg.t = "list"
  /\ Len(pf_arg.items) = 2
  /\ pf_arg.items[1].t = "dict"
  /\ pf_result = pf_arg

\* the string form of a continuation token
TokenText(k) == IF k.t = "int" THEN NatToStr(k.v) ELSE k.s

\* C19: the StatsData of get_data has next_key None exactly when RESULT_INF
\* carries no NEXT_KEY, and otherwise next_key is the string form of it.
C19_NextKeyNoneIffNoToken ==
  pf_name = "get_data" =>
    /\ IsNone(pf_result.next_key) <=> IsNone(pf_arg.NEXT_KEY)
    /\ ~IsNone(pf_arg.NEXT_KEY) =>
         pf_result.next_key = <<TokenText(pf_arg.NEXT_KEY[1])>>

\* C19 witness: the numeric token 0 came back as the string "0".
C19_TokenZeroKept ==
  /\ pf_name = "get_data"
  /\ pf_arg.NEXT_KEY = <<[t |-> "int", v |-> 0]>>
  /\ pf_result.next_key = <<<<"0">>>>

(***************************************************************************)
(* Properties of get_meta                                                  *)
(***************************************************************************)
\* a loop step that built the items of its class object
RoutedStep == gm_pc = "loop" /\ gm_pc' = "loop" /\ gm_left' = gm_left - 1

HasCatPrefix(id) ==
  Len(id) >= 3 /\ id[1] = "c" /\ id[2] = "a" /\ id[3] = "t"

\* C17: in get_meta the items of a class object go to exactly one bucket,
\* chosen by its id: "tab" to table_items only, "time" to time_items only,
\* "area" to area_items only, an id prefixed "cat" to classification_items
\* under that id only; a class object with any other id changes no bucket.
C17_RoutedByIdOnly ==
  [][RoutedStep =>
      /\ gm_obj_id' = <<"t", "a", "b">> =>
           /\ table_items' = gm_items'
           /\ UNCHANGED <<classification_items, time_items, area_items>>
      /\ gm_obj_id' = <<"t", "i", "m", "e">> =>
           /\ time_items' = gm_items'
           /\ UNCHANGED <<table_items, classification_items, area_items>>
      /\ gm_obj_id' = <<"a", "r", "e", "a">> =>
           /\ area_items' = gm_items'
           /\ UNCHANGED <<table_items, classification_items, time_items>>
      /\ HasCatPrefix(gm_obj_id') =>
           /\ DOMAIN classification_items' =
                DOMAIN classification_items \cup {gm_obj_id'}
           /\ classification_items'[gm_obj_id'] = gm_items'
           /\ \A k \in DOMAIN classification_items \ {gm_obj_id'} :
                classification_items'[k] = classification_items[k]
           /\ UNCHANGED <<table_items, time_items, area_items>>
      /\ /\ gm_obj_id' \notin {<<"t", "a", "b">>, <<"t", "i", "m", "e">>,
                               <<"a", "r", "e", "a">>}
         /\ ~HasCatPrefix(gm_obj_id')
         => UNCHANGED gm_buckets
  ]_vars

\* C17 witness: get_meta returned after a "tab" object and then a "cat01"
\* object, each with an item; the one filled table_items, the other
\* classification_items["cat01"], and time_items and area_items are empty.
C17_TabThenCat01 ==
  /\ gm_pc = "returned"
  /\ gm_obj_id = <<"c", "a", "t", "0", "1">>
  /\ Len(table_items) = 1
  /\ DOMAIN classification_items = {<<"c", "a", "t", "0", "1">>}
  /\ Len(classification_items[<<"c", "a", "t", "0", "1">>]) = 1
  /\ time_items = << >>
  /\ area_items = << >>

\* C18: when the level of a class is absent or cannot be parsed as an
\* integer, get_meta yields that item with level 1 and does not raise.
C18_BadLevelBecomesOne ==
  \A i \in 1..Len(gm_classes) :
    (\/ IsNone(gm_classes[i].level)
     \/ ~PyIntParses(gm_classes[i].level[1]))
    => /\ gm_pc # "raised"
       /\ Len(gm_items) >= i
       /\ gm_items[i].level = 1

(***************************************************************************)
(* Properties of the async context manager                                 *)
(***************************************************************************)
\* C20: once the block of "async with EstatClient(...)" is left, the
\* client's connection is closed, whether the block ended normally or with
\* an error.
C20_ClosedWhenBlockLeft ==
  ses_pc = "left" => http_closed

\* C20 witness: the request of the block raised EstatAPIError, the block was
\* left with it, and the connection is closed.
C20_ClosedAfterApiError ==
  /\ ses_pc = "left"
  /\ gj_outcome = "raised"
  /\ ses_exc = <<"EstatAPIError">>
  /\ http_closed

(***************************************************************************)
(* Properties of the data tools                                            *)
(***************************************************************************)
\* the dict carries a field that says the values were cut
SaysTruncated(rec) == "note" \in DOMAIN rec /\ rec.note # << >>

\* C21: each data tool returns at most the first 100 values of the underlying
\* result, and whenever the underlying result holds more than 100 values the
\* dict it returns carries an indicator that it was truncated.
C21_TruncatedToHundredAndFlagged ==
  tool_name # "" =>
    LET data == tool_data[1]
        rec == tool_record[1]
    IN /\ Len(rec.values) <= 100
       /\ rec.values = SubSeq(data.values, 1, Len(rec.values))
       /\ Len(data.values) > 100 => SaysTruncated(rec)

\* C23: the has_more of get_all_statistic_data (called with max_pages >= 1)
\* is true exactly when the last page fetched carried a continuation token,
\* and so false whenever the last page fetched was the final page.
C23_HasMoreIffLastPageHadToken ==
  (ga_pc = "returned" /\ max_pages >= 1)
  => (GetAllStatisticDataRecord(ga_result[1]).has_more <=> LastHasKey)

(***************************************************************************)
(* More properties of get_all_data (checked under SpecPaging)              *)
(***************************************************************************)
\* C25: get_all_data walks the pages one at a time: a fetch is in flight only
\* when every earlier fetch has returned its page; the first fetch carries no
\* start position, and each later fetch carries the next_key of the page
\* before it as start position, whatever token that is.
C25_EachFetchStartsAtToken ==
  ga_pc = "fetching" =>
    /\ ga_ncalls = Len(ga_fetched) + 1
    /\ ga_ncalls = 1 => StartPositionParam(ga_call[1]) = << >>
    /\ ga_ncalls > 1 =>
         LET token == ga_last[1].next_key[1]
             sent == StartPositionParam(ga_call[1])
         IN /\ sent # << >>
            /\ CanParseInt(token)
            /\ sent[1] = ParseInt(token)

\* C28: every get_data call of get_all_data receives the stats id, dataset
\* id, level and code filters and limit that get_all_data was called with;
\* only start_position is its own.
C28_FetchArgsAreCallArgs ==
  ga_call # << >> =>
    /\ ga_call[1].stats_id = ga_args.stats_id
    /\ ga_call[1].dataset_id = ga_args.dataset_id
    /\ ga_call[1].lv_tab = ga_args.lv_tab
    /\ ga_call[1].cd_tab = ga_args.cd_tab
    /\ ga_call[1].lv_time = ga_args.lv_time
    /\ ga_call[1].cd_time = ga_args.cd_time
    /\ ga_call[1].lv_area = ga_args.lv_area
    /\ ga_call[1].cd_area = ga_args.cd_area
    /\ ga_call[1].cd_cat01 = ga_args.cd_cat01
    /\ ga_call[1].limit = ga_args.limit

\* C28 witness: the second fetch of a call that gave dataset id, filters and
\* limit 10 is in flight, with start position 7.
C28_SecondFetchWithFilters ==
  /\ ga_pc = "fetching"
  /\ ga_ncalls = 2
  /\ ga_args.dataset_id = <<"D">>
  /\ ga_args.limit = 10
  /\ ga_call[1].start_position = <<7>>

\* C29: when a page fetch of get_all_data fails, get_all_data fails with that
\* same error, the failed fetch is the last one issued, and there is no
\* result, whatever pages were fetched before.
C29_FetchErrorEndsWalk ==
  ga_fetch_error # << >> =>
    /\ ga_pc = "raised"
    /\ ga_error = ga_fetch_error[1]
    /\ ga_result = << >>
    /\ ga_ncalls = Len(ga_fetched) + 1

\* C29 witness: the second fetch failed with a connection error after a first
\* page that held a value.
C29_SecondFetchFailed ==
  /\ ga_fetch_error = <<"ConnectError">>
  /\ Len(ga_fetched) = 1
  /\ Len(all_values) = 1
  /\ ga_pc = "raised"

(***************************************************************************)
(* More properties of the retrying transport (checked under SpecTransport) *)
(***************************************************************************)
\* the exception the i-th GET failed with, when it failed retryably
FailureOf(i) ==
  IF rq_gets[i].kind = "timeout"
  THEN [type |-> "TimeoutException", detail |-> <<i>>, cause |-> << >>]
  ELSE [type |-> "HTTPStatusError",
        detail |-> <<rq_gets[i].resp.status_code>>, cause |-> << >>]

\* C26: when all 3 attempts of a request failed retryably, the error raised
\* to the caller is the API error, it reports the failure of the third
\* attempt and carries that failure as its cause.
C26_ExhaustionReportsThirdFailure ==
  (rq_pc = "done" /\ Len(rq_gets) = 3 /\ RetryableFailure(3)) =>
    /\ rr_outcome = "raised"
    /\ gj_outcome = "raised"
    /\ rr_value = gj_value
    /\ gj_value[1].type = "EstatAPIError"
    /\ gj_value[1].cause = <<FailureOf(3)>>
    /\ gj_value[1].detail = <<"HTTP error: ", FailureOf(3)>>

\* C26 witness: a timeout, a 503 and a 500; the error raised names the 500.
C26_TimeoutThen503Then500 ==
  /\ rq_pc = "done"
  /\ Len(rq_gets) = 3
  /\ rq_gets[1].kind = "timeout"
  /\ RespondedWith(2, {503})
  /\ RespondedWith(3, {500})
  /\ gj_value[1].cause[1].detail = <<500>>

\* C27: an exception of the HTTP GET that is neither a retryable status nor
\* a timeout ends the request on the attempt where it occurs, with no sleep
\* after it, and reaches the caller as it is, not as the API error.
C27_OtherErrorsPropagateRaw ==
  \A i \in 1..Len(rq_gets) :
    rq_gets[i].kind = "error" =>
      /\ i = Len(rq_gets)
      /\ rq_pc = "done"
      /\ Len(rq_sleeps) = i - 1
      /\ rr_outcome = "raised"
      /\ gj_outcome = "raised"
      /\ gj_value = <<[type |-> "ConnectError", detail |-> << >>, cause |-> << >>]>>
      /\ rr_value = gj_value

\* C27 witness: a connection error on the second attempt, after a timeout.
C27_ConnectErrorOnSecondAttempt ==
  /\ Len(rq_gets) = 2
  /\ rq_gets[1].kind = "timeout"
  /\ rq_gets[2].kind = "error"
  /\ gj_value[1].type = "ConnectError"

(***************************************************************************)
(* Properties of the shared client and the lifespan                        *)
(***************************************************************************)
\* C22: whatever the interleaving of concurrent _get_client calls, at most
\* one EstatClient is ever constructed, and every call that has returned
\* returned that one instance, never None.
C22_OneSharedClient ==
  /\ constructed <= 1
  /\ \A t \in ToolCalls :
       gc_pc[t] = "returned" => gc_ret[t] # 0 /\ gc_ret[t] = shared_client
  /\ \A t, u \in ToolCalls :
       (gc_pc[t] = "returned" /\ gc_pc[u] = "returned") => gc_ret[t] = gc_ret[u]

\* C22 witness: two calls found _client unset; one has constructed the client
\* and returned it, the other is still on its way to the lock, and a third
\* call has returned the same instance.
C22_LateCallerBehindLock ==
  /\ gc_pc[1] = "returned"
  /\ gc_pc[2] = "acquire"
  /\ gc_pc[3] = "returned"
  /\ constructed = 1
  /\ gc_ret[1] = 1
  /\ gc_ret[3] = 1

\* C24: when the lifespan has ended, the shared client is closed if one was
\* created, after an error exit of the server as after a normal shutdown; if
\* none was created, none has been created or closed by the shutdown.
C24_ClientClosedAtLifespanEnd ==
  ls_pc = "ended" =>
    /\ shared_client # 0 => shared_client \in closed_clients
    /\ shared_client = 0 => constructed = 0 /\ closed_clients = {}

(***************************************************************************)
(* Progress of the rate limiter (checked under SpecLimiterFair)            *)
(***************************************************************************)
\* C30: with rate > 0 and a fair scheduler under which every sleep of the
\* gate ends, every task that called wait() eventually passes the gate,
\* whatever the other tasks do; a task in the backoff sleep of its retry
\* loop is outside the gate and the lock is not held for it, so tasks pass
\* even while it sleeps on.
C30_EveryCallerPasses ==
  /\ \A c \in Callers :
       (lim_pc[c] \in {"queued", "sleeping"}) ~> (lim_pc[c] = "requesting")
  /\ [](lim_locked => \E c \in Callers : lim_pc[c] = "sleeping")

\* C30 witness: one task is in the backoff sleep of its retry loop while
\* another sleeps in the gate, its sleep not yet due
C30_SleepsInGateDuringBackoff ==
  /\ lim_rate > 0
  /\ \E c \in Callers : lim_pc[c] = "backoff"
  /\ \E d \in Callers : lim_pc[d] = "sleeping" /\ lim_now < lim_wake[d]
  /\ lim_last > 0

====
